---- MODULE Spec2Model ----
(***************************************************************************)
(* Model of import_phpipam_to_netbox.py: PhpIpamImporter and main().       *)
(*                                                                         *)
(* A text is a sequence of tokens; a token is an indivisible piece of text *)
(* (a TLA+ string).  The text a sequence stands for is the concatenation   *)
(* of its tokens.  The alphabet is chosen so that no concatenation of two  *)
(* or more tokens is a valid network, a valid address or "ip address".     *)
(* A cell of the sheet is a record [t, v]: t is the Python type of the     *)
(* cell ("str", "nan" for the null marker) and v is str(cell) as a text.   *)
(***************************************************************************)
EXTENDS Integers, Sequences, FiniteSets, TLC

VARIABLES
    df,                  \* rows of EXCEL_FILE (the same file for every run)
    inventory,           \* records held by NetBox
    run,                 \* number of runs of main() started so far
    dry_run,             \* DRY_RUN of the current run
    pc,                  \* position of the current run
    idx,                 \* rows taken from df.iterrows() in this run
    stats,               \* importer.stats
    current_subnet,      \* process_data: current_subnet
    current_description, \* process_data: current_description
    intent,              \* arguments of the create_prefix / create_ip_address
                         \* call in progress (NoIntent between calls)
    log,                 \* client calls of this run, in order, with results
    setup,               \* what setup met: nb.status(), read_excel, input()
    summary_printed,     \* the statistics block of process_data was printed
    exit_status,         \* exit status of the run (-1 until it ends)
    startInv,            \* inventory when this run started
    prev,                \* the previous finished run (NoRun if none)
    failures             \* client calls made to fail so far, over all runs

vars == <<df, inventory, run, dry_run, pc, idx, stats, current_subnet,
          current_description, intent, log, setup, summary_printed, exit_status,
          startInv, prev, failures>>

----------------------------------------------------------------------------
(* Bounds of the model *)

MaxRows == 2

MaxRuns == 2

MaxFailures == 1

(* Program constant: description[:200] *)
DescLimit == 200

----------------------------------------------------------------------------
(* Text helpers *)

Sep == " - "

Space == " "

\* Python values are records [t, v]: t the type, v the text of the value
None == [t |-> "none", v |-> <<>>]

\* number of characters of a token
TokLen(tok) == Len(tok)

RECURSIVE CharLen(_)
CharLen(s) == IF s = <<>> THEN 0 ELSE TokLen(Head(s)) + CharLen(Tail(s))

\* the Python string a text stands for
RECURSIVE Text(_)
Text(s) == IF s = <<>> THEN "" ELSE Head(s) \o Text(Tail(s))

\* header.split(' - ')
RECURSIVE Split(_)
Split(s) ==
    IF \A i \in 1..Len(s) : s[i] # Sep
    THEN <<s>>
    ELSE LET i == CHOOSE k \in 1..Len(s) :
                      s[k] = Sep /\ \A j \in 1..(k - 1) : s[j] # Sep
         IN <<SubSeq(s, 1, i - 1)>> \o Split(SubSeq(s, i + 1, Len(s)))

\* as Join, with only the first of the parts kept
JoinFirst(parts, sep) == IF parts = <<>> THEN <<>> ELSE parts[1]

\* ' - '.join(parts)
RECURSIVE Join(_, _)
Join(parts, sep) ==
    IF parts = <<>> THEN <<>>
    ELSE IF Len(parts) = 1 THEN parts[1]
    ELSE parts[1] \o <<sep>> \o Join(Tail(parts), sep)

\* str.strip()
RECURSIVE Strip(_)
Strip(s) ==
    IF s = <<>> THEN s
    ELSE IF Head(s) = Space THEN Strip(Tail(s))
    ELSE IF s[Len(s)] = Space THEN Strip(SubSeq(s, 1, Len(s) - 1))
    ELSE s

\* str.lower()
LowerTok(tok) == IF tok = "IP address" THEN "ip address" ELSE tok

Lower(s) == [i \in 1..Len(s) |-> LowerTok(s[i])]

\* '/' in header
HasSlash(s) ==
    \E i \in 1..Len(s) : s[i] \in {"10.1.8.0/24", "10.2.0.0/16", "x/y"}

\* as Truncate, with the text left uncut
TruncateNone(s, n) == s

\* text[:n]: the longest prefix of whole tokens of at most n characters
\* (the long texts of the model are cut at a token boundary)
Truncate(s, n) ==
    LET k == CHOOSE m \in 0..Len(s) :
                 /\ CharLen(SubSeq(s, 1, m)) <= n
                 /\ \A j \in (m + 1)..Len(s) : CharLen(SubSeq(s, 1, j)) > n
    IN SubSeq(s, 1, k)

----------------------------------------------------------------------------
(* ipaddress.ip_network / ipaddress.ip_address on the texts of the model *)

V4Hosts == {"10.1.8.5"}

V6Hosts == {"2001:db8::1"}

\* ip_address(text) does not raise
IsAddress(s) == Len(s) = 1 /\ s[1] \in V4Hosts \cup V6Hosts

\* ip_address(text).version
Version(s) == IF s[1] \in V4Hosts THEN 4 ELSE 6

\* as IsNetwork, with every text accepted
IsNetworkUnchecked(s) == TRUE

\* ip_network(text) does not raise (strict: no host bits; a bare host
\* address is a valid full-length network)
IsNetwork(s) ==
    /\ Len(s) = 1
    /\ s[1] \in {"10.1.8.0/24", "10.2.0.0/16"} \cup V4Hosts \cup V6Hosts

----------------------------------------------------------------------------
(* Cells and rows *)

Str(s) == [t |-> "str", v |-> s]

\* `value` as a Python condition: None and "" are false, NaN is a float
\* that is not zero
Truthy(value) == value.t = "nan" \/ (value.t = "str" /\ value.v # <<>>)

NaN == [t |-> "nan", v |-> <<"nan">>]

\* pd.notna(cell)
NotNa(cell) == cell.t # "nan"

\* 50 characters
Chunk == "dddddddddddddddddddddddddddddddddddddddddddddddddd"

\* a text of 250 characters
LongText == <<Chunk, Chunk, Chunk, Chunk, Chunk>>

Row(c0, description, hostname, note) ==
    [c0 |-> c0, description |-> description, hostname |-> hostname,
     note |-> note]

HeaderRow == Row(Str(<<"10.1.8.0/24", " - ", "L", " - ", "v">>), NaN, NaN, NaN)

V4Row == Row(Str(<<"10.1.8.5">>), Str(<<"S">>), Str(<<"h">>), NaN)

V6Row == Row(Str(<<" ", "2001:db8::1">>), Str(LongText), NaN, Str(<<"n">>))

TitleRow == Row(Str(<<"IP address">>), Str(<<"D">>), Str(<<"H">>), Str(<<"N">>))

BadHeaderRow == Row(Str(<<"x/y", " - ", "z">>), NaN, NaN, NaN)

EmptyRow == Row(NaN, NaN, NaN, NaN)

Rows == {HeaderRow, V4Row, V6Row, TitleRow, BadHeaderRow, EmptyRow}

RowSeqs == UNION {[1..n -> Rows] : n \in 0..MaxRows}

\* a second subnet, with a description of 250 characters
LongHeaderRow == Row(Str(<<"10.2.0.0/16", " - ">> \o LongText), NaN, NaN, NaN)

\* an address with a note and no description
NoteOnlyRow == Row(Str(<<"10.1.8.5">>), NaN, NaN, Str(<<"n">>))

\* a first cell that is neither a header nor an address
BadAddressRow == Row(Str(<<"z">>), Str(<<"S">>), NaN, NaN)

UnitRows == Rows \cup {LongHeaderRow, NoteOnlyRow, BadAddressRow}

UnitRowSeqs == UNION {[1..n -> UnitRows] : n \in 0..MaxRows}

----------------------------------------------------------------------------
(* parse_subnet_header: <<subnet, description>> or <<None, None>> *)

parse_subnet_header(header) ==
    IF header.t # "str" \/ ~HasSlash(header.v) THEN <<None, None>>
    ELSE LET parts == Split(header.v) IN
         IF Len(parts) < 2 THEN <<None, None>>
         ELSE LET subnet == Strip(parts[1])
                  description == Join(Tail(parts), Sep)
              IN IF IsNetwork(subnet) THEN <<Str(subnet), Str(description)>>
                 ELSE <<None, None>>

\* What one iteration of the loop of process_data does with a row
Classify(row) ==
    LET first_col == row.c0
        parsed == parse_subnet_header(first_col)
    IN IF first_col.t = "str" /\ Truthy(parsed[1]) THEN "subnet"
       ELSE IF first_col.t = "str" /\ Lower(first_col.v) = <<"ip address">>
            THEN "title"
       ELSE IF NotNa(first_col) /\ IsAddress(Strip(first_col.v))
            THEN "address"
       ELSE "noise"

\* as RowAction, with an address row dropped while there is no current subnet
RowActionNeedsSubnet(row, current) ==
    IF Classify(row) = "address" /\ ~Truthy(current) THEN "noise"
    ELSE Classify(row)

\* as RowAction, with a subnet header sent to the address branch
RowActionHeaderAsAddress(row, current) ==
    IF Classify(row) = "subnet" THEN "address" ELSE Classify(row)

\* The branch the loop body takes for a row while current_subnet is
\* `current`: the loop never reads current_subnet
RowAction(row, current) == Classify(row)

\* as SubnetContext, with the first subnet seen kept
SubnetContextKeepsFirst(current, subnet) ==
    IF Truthy(current) THEN current ELSE subnet

\* current_subnet = subnet
SubnetContext(current, subnet) == subnet

----------------------------------------------------------------------------
(* The NetBox client (pynetbox): the calls the program makes on it *)

\* Kinds of exception a client call can raise
FailKinds == {"ValueError", "RequestError"}

Matches(inv, endpoint, key) ==
    {r \in inv : r.endpoint = endpoint /\ r.key = key}

\* the highest id NetBox has given
MaxId(inv) ==
    IF inv = {} THEN 0
    ELSE CHOOSE n \in {r.id : r \in inv} : \A q \in inv : q.id <= n

\* nb.ipam.<endpoint>.create(**args): the record NetBox adds
NewRecord(inv, endpoint, args) ==
    [id |-> MaxId(inv) + 1, endpoint |-> endpoint, key |-> args.key,
     description |-> args.description, dns_name |-> args.dns_name,
     status |-> args.status]

Call(op, endpoint, key, result, row) ==
    [op |-> op, endpoint |-> endpoint, key |-> key, result |-> result,
     row |-> row]

Failed(l) == {i \in 1..Len(l) : l[i].result \in FailKinds}

\* a lookup or create may still be made to fail
MayFail == failures < MaxFailures

SeedRecords ==
    { [id |-> 1, endpoint |-> "prefixes", key |-> "10.1.8.0/24",
       description |-> <<"o", "l", "d">>, dns_name |-> <<>>,
       status |-> "reserved"],
      [id |-> 2, endpoint |-> "ip_addresses", key |-> "10.1.8.5/32",
       description |-> <<"o", "l", "d">>, dns_name |-> <<"g">>,
       status |-> "reserved"] }

----------------------------------------------------------------------------
(* Decisions of the program *)

ZeroStats ==
    [prefixes_created |-> 0, prefixes_skipped |-> 0, ips_created |-> 0,
     ips_skipped |-> 0, errors |-> 0]

\* self.stats[counter] += 1
Bump(st, counter) == [st EXCEPT ![counter] = @ + 1]

\* main: after connect_netbox() returned ok
MainAfterConnect(ok) == IF ok THEN "read" ELSE "exit1"

\* as MainAfterRead, without the test `if df is None`
MainAfterReadUnchecked(outcome) == "confirm"

\* main: after read_phpipam_export() returned (df is None on any failure)
MainAfterRead(outcome) == IF outcome = "ok" THEN "confirm" ELSE "exit1"

\* main: the confirmation before process_data
MainAfterConfirm(dry, response) ==
    IF ~dry
    THEN IF LowerTok(response) # "yes" THEN "exit0" ELSE "rows"
    ELSE "rows"

\* as PrefixCallsClient, with DRY_RUN ignored
PrefixCallsClientAlways(dry) == TRUE

\* create_prefix: `if not DRY_RUN`
PrefixCallsClient(dry) == ~dry

\* as PrefixAfterGet, with the result of the lookup ignored
PrefixAfterGetAlwaysCreate(existing) == "create"

\* as PrefixAfterGet, with the create left out
PrefixAfterGetAlwaysSkip(existing) == "skip"

\* create_prefix: `if existing` after the lookup
PrefixAfterGet(existing) == IF existing THEN "skip" ELSE "create"

\* as PrefixSkippedCounter, with the counter of the create branch
PrefixSkippedCounterCreated == "prefixes_created"

\* create_prefix: the counter of an existing prefix
PrefixSkippedCounter == "prefixes_skipped"

\* as PrefixOnExisting, with the existing prefix deleted
PrefixOnExistingDeletes(inv, existing) == inv \ existing

\* create_prefix: an existing prefix is returned as it is
PrefixOnExisting(inv, existing) == inv

\* create_prefix: arguments of prefixes.create
PrefixCreateArgs(subnet, description) ==
    [key |-> Text(subnet.v),
     description |-> IF Truthy(description)
                     THEN Truncate(description.v, DescLimit) ELSE <<>>,
     dns_name |-> <<>>,
     status |-> "active"]

\* as PrefixOnError, with an except clause that misses request errors
PrefixOnErrorNarrow(kind) == IF kind = "RequestError" THEN "raise" ELSE "count"

\* create_prefix: `except Exception` counts every kind of failure
PrefixOnError(kind) == "count"

\* as IpWithMask, with /32 for every version
IpWithMaskV4Only(ip) == Text(ip) \o "/32"

\* create_ip_address: ip_with_mask
IpWithMask(ip) ==
    IF Version(ip) = 4 THEN Text(ip) \o "/32" ELSE Text(ip) \o "/128"

\* as IpLookupKey, looking the bare address up
IpLookupKeyBare(ip) == Text(ip)

\* create_ip_address: the key of the lookup
IpLookupKey(ip) == IpWithMask(ip)

\* as IpCallsClient, with DRY_RUN ignored
IpCallsClientAlways(dry) == TRUE

\* create_ip_address: `if not DRY_RUN`
IpCallsClient(dry) == ~dry

\* as IpAfterGet, with the test inverted
IpAfterGetInverted(existing) == IF existing THEN "create" ELSE "skip"

\* create_ip_address: `if existing` after the lookup
IpAfterGet(existing) == IF existing THEN "skip" ELSE "create"

\* create_ip_address: an existing address is left as it is
IpOnExisting(inv, existing) == inv

\* create_ip_address: full_description
FullDescription(description, note) ==
    LET d == IF NotNa(description) /\ Truthy(description)
             THEN <<description.v>> ELSE <<>>
        n == IF NotNa(note) /\ Truthy(note)
             THEN <<(<<"Note: ">> \o note.v)>> ELSE <<>>
    IN Join(d \o n, " | ")

\* create_ip_address: arguments of ip_addresses.create
IpCreateArgs(ip, hostname, description, note) ==
    LET full == FullDescription(description, note) IN
    [key |-> IpWithMask(ip),
     description |-> IF full # <<>> THEN Truncate(full, DescLimit) ELSE <<>>,
     dns_name |-> IF NotNa(hostname) THEN hostname.v ELSE <<>>,
     status |-> "active"]

\* create_ip_address: `except ValueError: pass` comes first, then
\* `except Exception` counts
IpOnError(kind) == IF kind = "ValueError" THEN "pass" ELSE "count"

----------------------------------------------------------------------------
(* State machine *)

NoIntent == [call |-> "none"]

\* nothing of the setup has happened yet
NoSetup == [status |-> "none", read |-> "none", response |-> "none"]

NoRun == [dry |-> TRUE, stats |-> ZeroStats, summary |-> FALSE,
          failed |-> FALSE]

RunRecord ==
    [dry |-> dry_run, stats |-> stats, summary |-> summary_printed,
     failed |-> Failed(log) # {}]

Init ==
    /\ df \in RowSeqs
    /\ inventory \in SUBSET SeedRecords
    /\ run = 0
    /\ dry_run = TRUE
    /\ pc = "idle"
    /\ idx = 0
    /\ stats = ZeroStats
    /\ current_subnet = None
    /\ current_description = None
    /\ intent = NoIntent
    /\ log = <<>>
    /\ setup = NoSetup
    /\ summary_printed = FALSE
    /\ exit_status = -1
    /\ startInv = inventory
    /\ prev = NoRun
    /\ failures = 0

\* the run ends: sys.exit(status), an uncaught exception, or falling off main
Exit(status) ==
    /\ pc' = "exit"
    /\ exit_status' = status

\* An operator runs the script, with DRY_RUN as edited in the file
Main ==
    /\ pc \in {"idle", "exit"}
    /\ run < MaxRuns
    /\ \E d \in BOOLEAN : dry_run' = d
    /\ run' = run + 1
    /\ prev' = IF pc = "exit" THEN RunRecord ELSE prev
    /\ pc' = "connect"
    /\ idx' = 0
    /\ stats' = ZeroStats
    /\ current_subnet' = None
    /\ current_description' = None
    /\ intent' = NoIntent
    /\ log' = <<>>
    /\ setup' = NoSetup
    /\ summary_printed' = FALSE
    /\ exit_status' = -1
    /\ startInv' = inventory
    /\ UNCHANGED <<df, inventory, failures>>

\* connect_netbox: nb.status() and main's test of the result
ConnectNetbox ==
    /\ pc = "connect"
    /\ \E ok \in BOOLEAN :
         /\ log' = Append(log, Call("status", "status", "",
                                    IF ok THEN "ok" ELSE "RequestError", 0))
         /\ setup' = [setup EXCEPT !.status = IF ok THEN "ok" ELSE "fail"]
         /\ IF MainAfterConnect(ok) = "read"
            THEN /\ pc' = "read"
                 /\ UNCHANGED exit_status
            ELSE Exit(1)
    /\ UNCHANGED <<df, inventory, run, dry_run, idx, stats, current_subnet,
                   current_description, summary_printed, startInv, prev,
                   failures, intent>>

\* read_phpipam_export and main's test of the result
ReadExport ==
    /\ pc = "read"
    /\ \E outcome \in {"ok", "FileNotFoundError", "Exception"} :
         /\ setup' = [setup EXCEPT !.read = outcome]
         /\ IF MainAfterRead(outcome) = "confirm"
            THEN /\ pc' = "confirm"
                 /\ UNCHANGED exit_status
            ELSE Exit(1)
    /\ UNCHANGED <<df, inventory, run, dry_run, idx, stats, current_subnet,
                   current_description, log, summary_printed, startInv, prev,
                   failures, intent>>

\* main: "Continue? (yes/no)" when not DRY_RUN
Confirm ==
    /\ pc = "confirm"
    /\ \E response \in IF dry_run THEN {"none"} ELSE {"yes", "no"} :
         /\ setup' = [setup EXCEPT !.response = response]
         /\ IF MainAfterConfirm(dry_run, response) = "rows"
            THEN /\ pc' = "rows"
                 /\ UNCHANGED exit_status
            ELSE Exit(0)
    /\ UNCHANGED <<df, inventory, run, dry_run, idx, stats, current_subnet,
                   current_description, log, summary_printed, startInv, prev,
                   failures, intent>>

\* process_data: one iteration of the loop, up to the first client call
ProcessRow ==
    /\ pc = "rows"
    /\ idx < Len(df)
    /\ idx' = idx + 1
    /\ LET row == df[idx + 1]
           kind == RowAction(row, current_subnet)
           parsed == parse_subnet_header(row.c0)
       IN CASE kind = "subnet" ->
                 /\ current_subnet' = SubnetContext(current_subnet, parsed[1])
                 /\ current_description' = parsed[2]
                 /\ IF PrefixCallsClient(dry_run)
                    THEN /\ pc' = "prefix_get"
                         /\ intent' = [call |-> "create_prefix",
                                       subnet |-> parsed[1],
                                       description |-> parsed[2]]
                         /\ UNCHANGED stats
                    ELSE /\ pc' = "rows"
                         /\ intent' = NoIntent
                         /\ stats' = Bump(stats, "prefixes_created")
            [] kind = "address" ->
                 /\ UNCHANGED <<current_subnet, current_description>>
                 /\ IF IpCallsClient(dry_run)
                    THEN /\ pc' = "ip_get"
                         /\ intent' = [call |-> "create_ip_address",
                                       ip |-> Strip(row.c0.v),
                                       hostname |-> row.hostname,
                                       description |-> row.description,
                                       note |-> row.note]
                         /\ UNCHANGED stats
                    ELSE /\ pc' = "rows"
                         /\ intent' = NoIntent
                         /\ stats' = Bump(stats, "ips_created")
            [] OTHER ->
                 /\ pc' = "rows"
                 /\ UNCHANGED <<stats, current_subnet, current_description,
                                intent>>
    /\ UNCHANGED <<df, inventory, run, dry_run, log, setup, summary_printed,
                   exit_status, startInv, prev, failures>>

\* What the handler of a failed client call does
AfterError(handling) ==
    /\ intent' = NoIntent
    /\ CASE handling = "count" ->
             /\ stats' = Bump(stats, "errors")
             /\ pc' = "rows"
             /\ UNCHANGED <<exit_status>>
        [] handling = "pass" ->
             /\ pc' = "rows"
             /\ UNCHANGED <<stats, exit_status>>
        [] OTHER ->
             /\ UNCHANGED stats
             /\ Exit(1)

\* create_prefix: existing = nb.ipam.prefixes.get(prefix=subnet)
PrefixGet ==
    /\ pc = "prefix_get"
    /\ LET key == Text(intent.subnet.v)
           existing == Matches(inventory, "prefixes", key)
           found == existing # {}
       IN \/ /\ log' = Append(log, Call("get", "prefixes", key,
                                   IF found THEN "found" ELSE "none", idx))
             /\ IF PrefixAfterGet(found) = "skip"
                THEN /\ pc' = "rows"
                     /\ intent' = NoIntent
                     /\ stats' = Bump(stats, PrefixSkippedCounter)
                     /\ inventory' = PrefixOnExisting(inventory, existing)
                ELSE /\ pc' = "prefix_create"
                     /\ UNCHANGED <<stats, inventory, intent>>
             /\ UNCHANGED <<exit_status, failures>>
          \/ /\ MayFail
             /\ failures' = failures + 1
             /\ \E kind \in FailKinds :
                  /\ log' = Append(log, Call("get", "prefixes", key, kind, idx))
                  /\ AfterError(PrefixOnError(kind))
             /\ UNCHANGED inventory
    /\ UNCHANGED <<df, run, dry_run, idx, current_subnet,
                   current_description, setup, summary_printed, startInv, prev>>

\* create_prefix: nb.ipam.prefixes.create(...)
PrefixCreate ==
    /\ pc = "prefix_create"
    /\ LET args == PrefixCreateArgs(intent.subnet, intent.description)
       IN \/ /\ log' = Append(log, Call("create", "prefixes", args.key,
                                        "ok", idx))
             /\ inventory' = inventory \cup
                               {NewRecord(inventory, "prefixes", args)}
             /\ stats' = Bump(stats, "prefixes_created")
             /\ pc' = "rows"
             /\ intent' = NoIntent
             /\ UNCHANGED <<exit_status, failures>>
          \/ /\ MayFail
             /\ failures' = failures + 1
             /\ \E kind \in FailKinds :
                  /\ log' = Append(log, Call("create", "prefixes", args.key,
                                             kind, idx))
                  /\ AfterError(PrefixOnError(kind))
             /\ UNCHANGED inventory
    /\ UNCHANGED <<df, run, dry_run, idx, current_subnet,
                   current_description, setup, summary_printed, startInv, prev>>

\* create_ip_address: existing = nb.ipam.ip_addresses.get(address=ip_with_mask)
IpGet ==
    /\ pc = "ip_get"
    /\ LET key == IpLookupKey(intent.ip)
           existing == Matches(inventory, "ip_addresses", key)
           found == existing # {}
       IN \/ /\ log' = Append(log, Call("get", "ip_addresses", key,
                                   IF found THEN "found" ELSE "none", idx))
             /\ IF IpAfterGet(found) = "skip"
                THEN /\ pc' = "rows"
                     /\ intent' = NoIntent
                     /\ stats' = Bump(stats, "ips_skipped")
                     /\ inventory' = IpOnExisting(inventory, existing)
                ELSE /\ pc' = "ip_create"
                     /\ UNCHANGED <<stats, inventory, intent>>
             /\ UNCHANGED <<exit_status, failures>>
          \/ /\ MayFail
             /\ failures' = failures + 1
             /\ \E kind \in FailKinds :
                  /\ log' = Append(log, Call("get", "ip_addresses", key, kind,
                                             idx))
                  /\ AfterError(IpOnError(kind))
             /\ UNCHANGED inventory
    /\ UNCHANGED <<df, run, dry_run, idx, current_subnet,
                   current_description, setup, summary_printed, startInv, prev>>

\* create_ip_address: nb.ipam.ip_addresses.create(...)
IpCreate ==
    /\ pc = "ip_create"
    /\ LET args == IpCreateArgs(intent.ip, intent.hostname,
                                intent.description, intent.note)
       IN \/ /\ log' = Append(log, Call("create", "ip_addresses", args.key,
                                        "ok", idx))
             /\ inventory' = inventory \cup
                               {NewRecord(inventory, "ip_addresses", args)}
             /\ stats' = Bump(stats, "ips_created")
             /\ pc' = "rows"
             /\ intent' = NoIntent
             /\ UNCHANGED <<exit_status, failures>>
          \/ /\ MayFail
             /\ failures' = failures + 1
             /\ \E kind \in FailKinds :
                  /\ log' = Append(log, Call("create", "ip_addresses",
                                             args.key, kind, idx))
                  /\ AfterError(IpOnError(kind))
             /\ UNCHANGED inventory
    /\ UNCHANGED <<df, run, dry_run, idx, current_subnet,
                   current_description, setup, summary_printed, startInv, prev>>

\* process_data: the statistics block after the loop; main then returns
PrintSummary ==
    /\ pc = "rows"
    /\ idx = Len(df)
    /\ summary_printed' = TRUE
    /\ Exit(0)
    /\ UNCHANGED <<df, inventory, run, dry_run, idx, stats, current_subnet,
                   current_description, log, setup, startInv, prev,
                   failures, intent>>

Next ==
    \/ Main
    \/ ConnectNetbox
    \/ ReadExport
    \/ Confirm
    \/ ProcessRow
    \/ PrefixGet
    \/ PrefixCreate
    \/ IpGet
    \/ IpCreate
    \/ PrintSummary

Spec == Init /\ [][Next]_vars

\* One run of the script from a fresh start; the script is one sequential
\* process, so a step that can be taken is taken
LiveInit ==
    /\ Init
    /\ inventory \in {{}, SeedRecords}

MainOnce == run = 0 /\ Main

LiveNext ==
    \/ MainOnce
    \/ ConnectNetbox
    \/ ReadExport
    \/ Confirm
    \/ ProcessRow
    \/ PrefixGet
    \/ PrefixCreate
    \/ IpGet
    \/ IpCreate
    \/ PrintSummary

LiveSpec == LiveInit /\ [][LiveNext]_vars /\ WF_vars(LiveNext)

\* One run over the wider set of rows
UnitInit ==
    /\ df \in UnitRowSeqs
    /\ inventory \in {{}, SeedRecords}
    /\ run = 0
    /\ dry_run = TRUE
    /\ pc = "idle"
    /\ idx = 0
    /\ stats = ZeroStats
    /\ current_subnet = None
    /\ current_description = None
    /\ intent = NoIntent
    /\ log = <<>>
    /\ setup = NoSetup
    /\ summary_printed = FALSE
    /\ exit_status = -1
    /\ startInv = inventory
    /\ prev = NoRun
    /\ failures = 0

UnitSpec == UnitInit /\ [][LiveNext]_vars

----------------------------------------------------------------------------
(* Properties *)

HeaderRows == {HeaderRow}

AddressRows == {V4Row, V6Row}

\* rows among the first n of df that are in the set rs
CountRows(rs, n) == Cardinality({i \in 1..n : df[i] \in rs})

\* lookups and creates of this run
InventoryCalls == {i \in 1..Len(log) : log[i].op \in {"get", "create"}}

FailedCalls == {i \in InventoryCalls : log[i].result \in FailKinds}

\* the run went through process_data to its end
Finished == pc = "exit" /\ summary_printed

\* this run and the one before it both went through process_data in Apply
\* mode (the second against the inventory the first left)
TwoApplyRuns ==
    /\ Finished /\ ~dry_run
    /\ prev.summary /\ ~prev.dry

SecondRunAllSkipped ==
    /\ stats.prefixes_created = 0
    /\ stats.ips_created = 0
    /\ stats.prefixes_skipped = CountRows(HeaderRows, Len(df))
    /\ stats.ips_skipped = CountRows(AddressRows, Len(df))

C2_LookupBeforeWrite ==
    /\ \A i \in 1..Len(log) :
         log[i].op = "create" =>
           /\ i > 1
           /\ log[i - 1].op = "get"
           /\ log[i - 1].result = "none"
           /\ log[i - 1].endpoint = log[i].endpoint
           /\ log[i - 1].key = log[i].key
           /\ log[i - 1].row = log[i].row
    /\ \A r1, r2 \in inventory :
         (r1.endpoint = r2.endpoint /\ r1.key = r2.key) => r1 = r2

C2_Witness ==
    /\ ~dry_run
    /\ \E i, j \in 1..Len(log) :
         /\ i < j
         /\ log[i].op = "create" /\ log[i].result = "ok"
         /\ log[j].op = "get" /\ log[j].result = "found"
         /\ log[j].endpoint = log[i].endpoint /\ log[j].key = log[i].key

\* C3: every record of the inventory at the start of the run is still in it,
\* with the same fields, and the run issues lookups and creates only (after
\* the connection test)
C3_ExistingRecordsKept ==
    /\ startInv \subseteq inventory
    /\ \A i \in 1..Len(log) :
         \/ log[i].op \in {"get", "create"}
         \/ log[i].op = "status" /\ i = 1

C3_Witness ==
    /\ Finished /\ ~dry_run
    /\ startInv = SeedRecords
    /\ inventory # startInv
    /\ \E i \in 1..Len(log) : log[i].result = "found"

\* a DryRun run followed by an Apply run over the same rows, the Apply run
\* against an empty inventory and a client that never fails
DryThenApply ==
    /\ Finished /\ ~dry_run
    /\ prev.summary /\ prev.dry
    /\ startInv = {}
    /\ FailedCalls = {}

\* the key a row creates, <<>> for a row without intent
IntentKey(row) ==
    IF row \in HeaderRows
    THEN <<"prefixes", Text(parse_subnet_header(row.c0)[1].v)>>
    ELSE IF row \in AddressRows
    THEN <<"ip_addresses", IpWithMask(Strip(row.c0.v))>>
    ELSE <<>>

NoRepeatedKey ==
    \A i, j \in 1..Len(df) :
        (i # j /\ IntentKey(df[i]) # <<>>) => IntentKey(df[i]) # IntentKey(df[j])

\* C4 as stated: the five counters of the DryRun run equal those of the
\* Apply run
C4_ParityExact == DryThenApply => prev.stats = stats

\* C4 (amended): the DryRun created counters equal created + skipped of the
\* Apply run, all other counters of the DryRun run and errors of both are 0;
\* the five counters are equal when no key occurs in two rows
C4_Parity ==
    DryThenApply =>
      /\ prev.stats.prefixes_created =
           stats.prefixes_created + stats.prefixes_skipped
      /\ prev.stats.ips_created = stats.ips_created + stats.ips_skipped
      /\ prev.stats.prefixes_skipped = 0
      /\ prev.stats.ips_skipped = 0
      /\ prev.stats.errors = 0
      /\ stats.errors = 0
      /\ NoRepeatedKey => prev.stats = stats

C4_Witness ==
    /\ DryThenApply
    /\ NoRepeatedKey
    /\ stats.prefixes_created = 1
    /\ stats.ips_created = 1

\* C5: in a DryRun run no lookup and no create is made, the inventory is
\* unchanged, prefixes_created counts the subnet-header rows taken so far,
\* ips_created the valid address rows, and the other counters are 0
C5_DryRunNonMutating ==
    dry_run =>
      /\ InventoryCalls = {}
      /\ inventory = startInv
      /\ stats = [prefixes_created |-> CountRows(HeaderRows, idx),
                  prefixes_skipped |-> 0,
                  ips_created |-> CountRows(AddressRows, idx),
                  ips_skipped |-> 0,
                  errors |-> 0]

C5_Witness ==
    /\ dry_run /\ Finished
    /\ stats.prefixes_created = 1
    /\ stats.ips_created = 1
    /\ inventory = SeedRecords

\* C6 as stated: a DryRun run makes no client call of any kind
C6_NoClientCall == (dry_run /\ run > 0) => log = <<>>

\* C6 (amended): the only client call of a DryRun run is the connection
\* test of connect_netbox, made first; when it fails the run exits with
\* status 1 before any row, and otherwise the exit status and the counters
\* depend on the file alone
C6_DryRunOnlyConnects ==
    (dry_run /\ run > 0) =>
      /\ \A i \in 1..Len(log) : i = 1 /\ log[i].op = "status"
      /\ pc # "connect" => Len(log) = 1
      /\ (pc = "exit" /\ log[1].result # "ok") =>
           exit_status = 1 /\ idx = 0 /\ ~summary_printed
      /\ (pc = "exit" /\ log[1].result = "ok" /\ setup.read = "ok") =>
           /\ exit_status = 0
           /\ summary_printed
           /\ stats = [prefixes_created |-> CountRows(HeaderRows, Len(df)),
                       prefixes_skipped |-> 0,
                       ips_created |-> CountRows(AddressRows, Len(df)),
                       ips_skipped |-> 0,
                       errors |-> 0]

C6_Witness ==
    /\ dry_run /\ Finished
    /\ Len(log) = 1
    /\ stats.ips_created = 2

\* C7: in Apply mode every failed lookup or create is counted in errors
\* once and in nothing else, and is not made again for its row: errors is
\* the number of failed calls, the five counters add up to the intents dealt
\* with, and no row has two lookups or two creates
C7_FailuresCounted ==
    (~dry_run /\ pc \in {"rows", "exit"}) =>
      /\ stats.errors = Cardinality(FailedCalls)
      /\ \A i, j \in InventoryCalls :
           (i # j /\ log[i].row = log[j].row) => log[i].op # log[j].op
      /\ stats.prefixes_created + stats.prefixes_skipped + stats.ips_created
           + stats.ips_skipped + stats.errors
             = CountRows(HeaderRows \cup AddressRows, idx)

SetupFailed == setup.status = "fail" \/ setup.read \notin {"none", "ok"}

\* C8: a run whose connection test or file read failed has exited with
\* status 1 without taking a row or making a lookup or create; every other
\* run that has ended has status 0
C8_SetupFailuresFatal ==
    /\ SetupFailed =>
         /\ pc = "exit" /\ exit_status = 1
         /\ idx = 0 /\ InventoryCalls = {}
         /\ stats = ZeroStats /\ inventory = startInv
    /\ (pc = "exit" /\ ~SetupFailed) => exit_status = 0

C8_Witness ==
    /\ pc = "exit" /\ exit_status = 0
    /\ stats.errors > 0
    /\ summary_printed

PastSetup ==
    /\ setup.status = "ok" /\ setup.read = "ok"
    /\ setup.response \in {"none", "yes"}

\* C9: a run that got past setup takes the rows one at a time, each once,
\* and ends having taken them all and printed the summary, with status 0
C9_Completion ==
    /\ [][idx' # idx => (idx' = idx + 1 \/ (idx' = 0 /\ run' = run + 1))]_vars
    /\ (pc = "rows" /\ PastSetup) ~>
         (pc = "exit" /\ summary_printed /\ idx = Len(df) /\ exit_status = 0)

C9_Witness ==
    /\ Finished /\ ~dry_run
    /\ idx = Len(df) /\ idx = MaxRows
    /\ FailedCalls # {}
    /\ \E i \in 1..Len(df) : df[i] \notin HeaderRows \cup AddressRows

\* C10: the key of every address lookup is the address text followed by
\* "/32" for IPv4 and "/128" for IPv6, and every address create carries the
\* key of the lookup before it
C10_AddressKey ==
    \A i \in 1..Len(log) :
        log[i].endpoint = "ip_addresses" =>
          LET address == Text(Strip(df[log[i].row].c0.v)) IN
          /\ log[i].key =
               address \o (IF address = "10.1.8.5" THEN "/32" ELSE "/128")
          /\ log[i].key \in {"10.1.8.5/32", "2001:db8::1/128"}
          /\ log[i].op = "create" =>
               /\ log[i - 1].op = "get"
               /\ log[i - 1].row = log[i].row
               /\ log[i - 1].key = log[i].key

C10_Witness ==
    \E i, j \in 1..Len(log) :
        /\ log[i].op = "create" /\ log[i].key = "2001:db8::1/128"
        /\ log[i].result = "ok"
        /\ log[j].op = "create" /\ log[j].key = "10.1.8.5/32"
        /\ log[j].result = "ok"

----------------------------------------------------------------------------
(* Descriptions: truncation and header extraction *)

MinOf(a, b) == IF a <= b THEN a ELSE b

\* the description of a row's intent before any cut: the text after the
\* first " - " of a header; description and "Note: " + note of an address
\* row, joined with " | "
Untruncated(row) ==
    CASE row = HeaderRow -> <<"L", " - ", "v">>
      [] row = LongHeaderRow -> LongText
      [] row = V4Row -> <<"S">>
      [] row = V6Row -> LongText \o <<" | ", "Note: ", "n">>
      [] row = NoteOnlyRow -> <<"Note: ", "n">>
      [] OTHER -> <<>>

\* text is the first min(n, DescLimit) characters of whole
FirstChars(text, whole) ==
    /\ Len(text) <= Len(whole)
    /\ text = SubSeq(whole, 1, Len(text))
    /\ CharLen(text) = MinOf(CharLen(whole), DescLimit)

\* C11: in Apply mode the description stored by a create is the first
\* min(n, 200) characters of the untruncated text of length n of its row
\* (for an address: description and note joined first, cut afterwards); it
\* is never longer than 200 characters, and a description of 250 characters
\* is stored as its first 200
C11_Truncation ==
    [][\A r \in inventory' \ inventory :
         /\ FirstChars(r.description, Untruncated(df[idx]))
         /\ CharLen(r.description) <= DescLimit
         /\ df[idx] = LongHeaderRow =>
              r.description = <<Chunk, Chunk, Chunk, Chunk>>]_vars

\* a subnet and an address were created whose texts of 250 and 260
\* characters were stored as 200
C11_Witness ==
    /\ ~dry_run
    /\ \E i, j \in 1..idx : df[i] = LongHeaderRow /\ df[j] = V6Row
    /\ \E r, q \in inventory \ startInv :
         /\ r.endpoint = "prefixes" /\ q.endpoint = "ip_addresses"
         /\ CharLen(r.description) = DescLimit
         /\ CharLen(q.description) = DescLimit

UnitHeaderRows == {HeaderRow, LongHeaderRow}

\* the text before the first " - " of a header row
HeaderCidr(row) ==
    IF row = HeaderRow THEN <<"10.1.8.0/24">> ELSE <<"10.2.0.0/16">>

\* the text after the first " - " of a header row
HeaderRest(row) ==
    IF row = HeaderRow THEN <<"L", " - ", "v">> ELSE LongText

\* the row just taken was handled as a subnet: a prefix intent with this
\* key is pending or its lookup is in the call log (Apply), or it has been
\* counted (DryRun)
HandledAsSubnet(key) ==
    IF dry_run
    THEN stats.prefixes_created >= 1
    ELSE \/ pc = "prefix_get" /\ intent.call = "create_prefix"
            /\ Text(intent.subnet.v) = key
         \/ \E k \in InventoryCalls :
              /\ log[k].row = idx /\ log[k].op = "get"
              /\ log[k].endpoint = "prefixes" /\ log[k].key = key

\* C12: a row whose first cell is "<cidr> - <rest>" with a valid network
\* before the first " - " is handled as a subnet header; its cidr is the
\* text before the first " - " and its description is everything after it,
\* later " - " separators kept
C12_HeaderExtraction ==
    (idx > 0 /\ df[idx] \in UnitHeaderRows) =>
      /\ current_subnet = Str(HeaderCidr(df[idx]))
      /\ current_description = Str(HeaderRest(df[idx]))
      /\ HandledAsSubnet(Text(HeaderCidr(df[idx])))
      /\ pc = "prefix_get" =>
           /\ intent.subnet = Str(HeaderCidr(df[idx]))
           /\ intent.description = Str(HeaderRest(df[idx]))

\* a header whose description holds a second " - " was looked up in Apply
\* mode
C12_Witness ==
    /\ ~dry_run /\ idx > 0 /\ df[idx] = HeaderRow
    /\ current_description = Str(<<"L", " - ", "v">>)
    /\ \E k \in InventoryCalls : log[k].row = idx /\ log[k].key = "10.1.8.0/24"

----------------------------------------------------------------------------
(* Rows, context and intents *)

\* column-title row, malformed header, unparseable address, empty first cell
NoiseRows == {TitleRow, BadHeaderRow, BadAddressRow, EmptyRow}

\* this step takes the next row of df, and the row is in rs
Takes(rs) == pc = "rows" /\ idx' = idx + 1 /\ df[idx'] \in rs

\* C13: taking a row that is neither a valid subnet header nor a valid
\* address makes no client call and leaves the five counters, the inventory
\* and the current-subnet context unchanged, in either mode
C13_NoiseNoEffect ==
    [][Takes(NoiseRows) =>
         /\ pc' = "rows"
         /\ UNCHANGED <<log, intent, stats, inventory, current_subnet,
                        current_description>>]_vars

\* a noise row was taken in Apply mode after a subnet header and a client
\* call
C13_Witness ==
    /\ ~dry_run /\ pc = "rows" /\ idx > 1
    /\ df[idx] \in NoiseRows
    /\ df[idx - 1] \in UnitHeaderRows
    /\ InventoryCalls # {}
    /\ current_subnet = Str(HeaderCidr(df[idx - 1]))

\* indexes of the rows taken so far that are subnet headers
HeadersTaken == {i \in 1..idx : df[i] \in UnitHeaderRows}

\* the most recent of them
LastHeader == CHOOSE i \in HeadersTaken : \A j \in HeadersTaken : j <= i

\* C14: at every point of the pass the current-subnet context is the cidr
\* of the most recent row taken that is a subnet header, and empty if there
\* has been none; so it changes on subnet-header rows only, whether or not
\* the subnet's create succeeds
C14_CurrentSubnet ==
    current_subnet = IF HeadersTaken = {} THEN None
                     ELSE Str(HeaderCidr(df[LastHeader]))

\* the second of two different subnets is the context although its client
\* call failed
C14_Witness ==
    /\ ~dry_run /\ pc = "rows" /\ idx = 2
    /\ df[1] = HeaderRow /\ df[2] = LongHeaderRow
    /\ \E k \in FailedCalls : log[k].row = 2
    /\ current_subnet = Str(<<"10.2.0.0/16">>)

UnitAddressRows == {V4Row, V6Row, NoteOnlyRow}

\* the lookup key of an address row
MaskedKey(row) == IF row = V6Row THEN "2001:db8::1/128" ELSE "10.1.8.5/32"

\* the counters after an address call with this result
AddressCounters(result) ==
    CASE result = "found" -> [stats EXCEPT !.ips_skipped = @ + 1]
      [] result = "ok" -> [stats EXCEPT !.ips_created = @ + 1]
      [] result = "RequestError" -> [stats EXCEPT !.errors = @ + 1]
      [] OTHER -> stats

\* this step makes one call `op` for the address row being handled, with
\* one of `results`, and counts it
AddressCall(op, results) ==
    /\ df[idx] \in UnitAddressRows
    /\ UNCHANGED current_subnet
    /\ Len(log') = Len(log) + 1
    /\ LET c == log'[Len(log')]
       IN /\ c.op = op /\ c.endpoint = "ip_addresses"
          /\ c.key = MaskedKey(df[idx]) /\ c.row = idx
          /\ c.result \in FailKinds \cup results
          /\ stats' = AddressCounters(c.result)

\* C15: what an address row does is fixed by the row, the mode, the
\* inventory and the client's answer, whatever the current-subnet context
\* is (none yet, a subnet that holds the address, a subnet that does not):
\* DryRun counts it as created without a call; Apply mode looks its key up
\* and creates it if the lookup found nothing; the row is never withheld
C15_AddressAnyContext ==
    [][/\ Takes(UnitAddressRows) =>
            /\ UNCHANGED <<log, inventory, current_subnet>>
            /\ IF dry_run
               THEN /\ pc' = "rows"
                    /\ stats' = [stats EXCEPT !.ips_created = @ + 1]
               ELSE /\ pc' = "ip_get"
                    /\ intent'.call = "create_ip_address"
                    /\ stats' = stats
       /\ pc = "ip_get" =>
            LET held == \E r \in inventory :
                          /\ r.endpoint = "ip_addresses"
                          /\ r.key = MaskedKey(df[idx])
            IN /\ AddressCall("get", {IF held THEN "found" ELSE "none"})
               /\ pc' = IF log'[Len(log')].result = "none"
                        THEN "ip_create" ELSE "rows"
       /\ pc = "ip_create" =>
            /\ AddressCall("create", {"ok"})
            /\ pc' = "rows"]_vars

\* an IPv4 address was created while the current subnet was 10.2.0.0/16,
\* which does not hold it
C15_Witness ==
    /\ ~dry_run /\ pc = "rows" /\ idx = 2
    /\ df[1] = LongHeaderRow /\ df[2] = V4Row
    /\ current_subnet = Str(<<"10.2.0.0/16">>)
    /\ stats.ips_created = 1
    /\ \E r \in inventory \ startInv : r.key = "10.1.8.5/32"

\* the client calls made for row i
CallsOf(i) == {k \in InventoryCalls : log[k].row = i}

\* the endpoint a row's intent is for
EndpointOf(row) ==
    IF row \in UnitHeaderRows THEN {"prefixes"}
    ELSE IF row \in UnitAddressRows THEN {"ip_addresses"}
    ELSE {}

CounterSum ==
    stats.prefixes_created + stats.prefixes_skipped + stats.ips_created
      + stats.ips_skipped + stats.errors

\* C16: a row gets at most one of create_prefix and create_ip_address, at
\* most once: its client calls are one lookup and at most one create on the
\* one endpoint of its kind (none for the other rows), a subnet header has
\* no address call, and no row is counted twice
C16_OneIntentPerRow ==
    /\ \A i \in 1..Len(df) :
         /\ \A k \in CallsOf(i) :
              i <= idx /\ log[k].endpoint \in EndpointOf(df[i])
         /\ \A k, l \in CallsOf(i) : log[k].op = log[l].op => k = l
    /\ CounterSum <= Cardinality({i \in 1..idx : EndpointOf(df[i]) # {}})
    /\ dry_run => stats.prefixes_created = Cardinality(HeadersTaken)

\* a subnet header and an address row were each looked up and created
C16_Witness ==
    /\ ~dry_run /\ pc = "rows" /\ idx = 2
    /\ df[1] \in UnitHeaderRows /\ df[2] \in UnitAddressRows
    /\ Cardinality(CallsOf(1)) = 2 /\ Cardinality(CallsOf(2)) = 2
    /\ CounterSum = 2

\* a call of one of the two handlers is under way
InCall == pc \in {"prefix_get", "prefix_create", "ip_get", "ip_create"}

\* C17: client calls are made in row order, one at a time: the rows of the
\* call log never decrease, a row's lookup comes before its create, a
\* lookup that found nothing is directly followed by its create (which is
\* the one call still to come if it is not in the log yet), and between
\* rows no call is left pending
C17_RowOrder ==
    /\ \A k, l \in InventoryCalls :
         k < l =>
           /\ log[k].row <= log[l].row
           /\ log[k].row = log[l].row =>
                log[k].op = "get" /\ log[l].op = "create"
    /\ \A k \in InventoryCalls :
         /\ log[k].row <= idx
         /\ (log[k].op = "get" /\ log[k].result = "none") =>
              IF k = Len(log)
              THEN pc \in {"prefix_create", "ip_create"} /\ log[k].row = idx
              ELSE /\ log[k + 1].op = "create"
                   /\ log[k + 1].row = log[k].row
                   /\ log[k + 1].key = log[k].key
    /\ InCall <=> intent # NoIntent
    /\ InCall => \A k \in InventoryCalls : log[k].row < idx \/ k = Len(log)

\* the lookup and the create of row 1 are followed by the lookup and the
\* create of row 2
C17_Witness ==
    /\ ~dry_run /\ pc = "rows"
    /\ \E k \in InventoryCalls :
         /\ k + 3 = Len(log)
         /\ log[k].row = 1 /\ log[k].op = "get"
         /\ log[k + 1].row = 1 /\ log[k + 1].op = "create"
         /\ log[k + 2].row = 2 /\ log[k + 2].op = "get"
         /\ log[k + 3].row = 2 /\ log[k + 3].op = "create"

----------------------------------------------------------------------------
(* Counters *)

\* rows taken so far that are a subnet header or a valid address row
IntentsTaken == {i \in 1..idx : EndpointOf(df[i]) # {}}

\* C18: between rows, in either mode and whatever the client does, the five
\* counters add up to the number of rows taken so far that are a subnet
\* header or a valid address row
C18_CounterAccounting ==
    pc \in {"rows", "exit"} => CounterSum = Cardinality(IntentsTaken)

\* records of an endpoint this run has added to the inventory
Added(endpoint) == {r \in inventory \ startInv : r.endpoint = endpoint}

\* creates on an endpoint that returned
Returned(endpoint) ==
    {k \in InventoryCalls :
       /\ log[k].op = "create" /\ log[k].endpoint = endpoint
       /\ log[k].result = "ok"}

\* C19: in Apply mode, at every point of the run, prefixes_created is the
\* number of subnet records the run has added to the inventory and
\* ips_created the number of address records; both count the creates that
\* returned, so a failed or skipped intent is never counted as created
C19_CreatedMatchInventory ==
    ~dry_run =>
      /\ stats.prefixes_created = Cardinality(Added("prefixes"))
      /\ stats.prefixes_created = Cardinality(Returned("prefixes"))
      /\ stats.ips_created = Cardinality(Added("ip_addresses"))
      /\ stats.ips_created = Cardinality(Returned("ip_addresses"))

\* a run that skipped an existing subnet and created an address
C19_Witness ==
    /\ ~dry_run /\ pc = "rows"
    /\ stats.prefixes_skipped = 1 /\ stats.prefixes_created = 0
    /\ stats.ips_created = 1
    /\ Cardinality(inventory \ startInv) = 1

====
